---- MODULE Spec2Model ----
(***************************************************************************)
(* Model of the VAD orchestration code of procteo-audio:                   *)
(*   src/src/audio/pipeline/vad_processor.py  (VADProcessor)               *)
(*   src/src/audio/utils/token_manager.py     (TokenManager)               *)
(*                                                                         *)
(* Times are integers on a fixed grid (one unit = 0.05 s), so that the     *)
(* comparisons of _post_process_segments are exact.                        *)
(***************************************************************************)
EXTENDS Integers, Sequences, FiniteSets, TLC

\* ------------------------------------------------------------------ bounds
MaxLen == 2          \* longest raw interval list drawn
MaxT == 4            \* largest audio duration drawn (grid units)
MaxMinDuration == 2  \* largest min_duration_s drawn
MaxMargin == 1       \* largest margin_s drawn
MaxMergeGap == 1     \* largest merge_gap_s drawn

VARIABLES
    segments,            \* argument of _post_process_segments
    audio_duration,      \* argument of _post_process_segments
    config,              \* self.config (the keys post-processing reads)
    processed_segments,  \* local list after the filter/margin loop
    result,              \* list returned by _post_process_segments
    result2,             \* list returned when applied to its own output
    pc,                  \* position of the post-processing caller
    tm_token,            \* TokenManager.token
    tm_source,           \* TokenManager.token_source
    token,               \* VADProcessor.token
    pipeline,            \* VADProcessor.pipeline
    device,              \* VADProcessor.device / device_str
    last_processed_hash, \* VADProcessor.last_processed_hash
    last_result,         \* VADProcessor.last_result
    initialization_error,\* VADProcessor.initialization_error
    scratch_exists,      \* the scratch file .tmp/<stem>.wav exists
    report_written,      \* a report file exists under reports/
    op,                  \* the public operation called last
    calls,               \* the calls that operation made, in order
    ret,                 \* the record that operation returned
    init_outcome,        \* whether the latest initialize_pipeline call returned
                         \* success or failure (None before the first call)
    op_arg,              \* the argument that operation was called with
    vad_result,          \* shape of the inference result of the last
                         \* process_audio call (None when inference never returned)
    st_secrets,          \* st.secrets["HF_TOKEN"]
    os_environ           \* os.environ["HUGGINGFACE_HUB_TOKEN"]

ppvars == <<segments, audio_duration, processed_segments, result, result2, pc>>

tmvars == <<tm_token, tm_source>>

objvars == <<token, pipeline, device, last_processed_hash, last_result,
             initialization_error>>

fsvars == <<scratch_exists, report_written>>

obsvars == <<op, calls, ret, init_outcome, op_arg, vad_result>>

envvars == <<st_secrets, os_environ>>

vars == <<segments, audio_duration, config, processed_segments, result, result2,
          pc, tm_token, tm_source, token, pipeline, device, last_processed_hash,
          last_result, initialization_error, scratch_exists, report_written,
          op, calls, ret, init_outcome, op_arg, vad_result, st_secrets, os_environ>>

\* ------------------------------------------------------------- helpers
Max(a, b) == IF a >= b THEN a ELSE b

Min(a, b) == IF a <= b THEN a ELSE b

\* pyannote.core.Segment(start, end)
Segment(start, end) == [start |-> start, end |-> end]

\* --------------------------------------------- _post_process_segments
\* lines 200-202: the segment passes the minimum-duration filter
KeepsDroppingEqual(segment, cfg) == ~((segment.end - segment.start) <= cfg.min_duration_s)

KeepsEverySegment(segment, cfg) == TRUE

KeepsSegment(segment, cfg) == ~((segment.end - segment.start) < cfg.min_duration_s)

\* lines 205-210: margins applied, clamped to [0, audio_duration]
ApplyMarginsNoClamp(segment, duration, cfg) ==
    Segment(segment.start - cfg.margin_s, segment.end + cfg.margin_s)

ApplyMargins(segment, duration, cfg) ==
    Segment(Max(0, segment.start - cfg.margin_s),
            Min(duration, segment.end + cfg.margin_s))

\* lines 195-210: the filter/margin loop over the raw segments
RECURSIVE FilterAndPad(_, _, _)
FilterAndPad(segs, duration, cfg) ==
    IF segs = <<>> THEN <<>>
    ELSE LET segment == Head(segs)
             rest == FilterAndPad(Tail(segs), duration, cfg)
         IN  IF ~KeepsSegment(segment, cfg)
             THEN rest
             ELSE <<ApplyMargins(segment, duration, cfg)>> \o rest

\* line 218: the merge test
ShouldMerge(current, next_seg, cfg) ==
    next_seg.start - current.end <= cfg.merge_gap_s

\* lines 217-226: the merge loop and the final append
RECURSIVE MergeLoopDropsLast(_, _, _, _)
MergeLoopDropsLast(current, rest, merged, cfg) ==
    IF rest = <<>> THEN merged
    ELSE LET next_seg == Head(rest)
         IN  IF ShouldMerge(current, next_seg, cfg)
             THEN MergeLoopDropsLast(Segment(current.start, next_seg.end),
                                     Tail(rest), merged, cfg)
             ELSE MergeLoopDropsLast(next_seg, Tail(rest),
                                     Append(merged, current), cfg)

RECURSIVE MergeLoopRec(_, _, _, _)
MergeLoopRec(current, rest, merged, cfg) ==
    IF rest = <<>> THEN Append(merged, current)
    ELSE LET next_seg == Head(rest)
         IN  IF ShouldMerge(current, next_seg, cfg)
             THEN MergeLoopRec(Segment(current.start, next_seg.end),
                               Tail(rest), merged, cfg)
             ELSE MergeLoopRec(next_seg, Tail(rest),
                               Append(merged, current), cfg)

MergeLoop(current, rest, merged, cfg) == MergeLoopRec(current, rest, merged, cfg)

\* line 213: the merge block runs only on a non-empty list and a positive gap
MergeEnabled(processed, cfg) == processed # <<>> /\ cfg.merge_gap_s > 0

\* lines 212-227
MergeSegments(processed, cfg) ==
    IF MergeEnabled(processed, cfg)
    THEN MergeLoop(processed[1], Tail(processed), <<>>, cfg)
    ELSE processed

\* lines 196-197: reading segment.start and segment.end raises on an object
\* that lacks one of them
HasBounds(segment) == {"start", "end"} \subseteq DOMAIN segment

\* lines 195-210: the filter/margin loop raises, on a malformed segment
\* (196-197), on a missing min_duration_s (201) or, for a kept segment, on a
\* missing margin_s (205)
RECURSIVE FilterAndPadRaises(_, _)
FilterAndPadRaises(segs, cfg) ==
    IF segs = <<>> THEN FALSE
    ELSE LET segment == Head(segs)
         IN  \/ ~HasBounds(segment)
             \/ "min_duration_s" \notin DOMAIN cfg
             \/ (KeepsSegment(segment, cfg) /\ "margin_s" \notin DOMAIN cfg)
             \/ FilterAndPadRaises(Tail(segs), cfg)

\* lines 192-231: some step of the try block raises; line 213 reads
\* merge_gap_s only when the processed list is not empty
PostProcessRaises(segs, duration, cfg) ==
    \/ FilterAndPadRaises(segs, cfg)
    \/ /\ FilterAndPad(segs, duration, cfg) # <<>>
       /\ "merge_gap_s" \notin DOMAIN cfg

\* lines 233-235: the except handler returns the empty list
ReturnInputOnError(segs) == SelectSeq(segs, HasBounds)

ReturnOnError(segs) == <<>>

\* lines 181-235
_post_process_segments(segs, duration, cfg) ==
    IF PostProcessRaises(segs, duration, cfg)
    THEN ReturnOnError(segs)
    ELSE MergeSegments(FilterAndPad(segs, duration, cfg), cfg)

\* ------------------------------------------------------- TokenManager
\* Python None
NoneVal == "None"

\* truthiness of an optional string: None and "" are falsy
Truthy(s) == s # NoneVal /\ s # ""

\* truthiness of a dict: only the empty dict is falsy
DictTruthy(d) == DOMAIN d # {}

\* values of st.secrets["HF_TOKEN"] and os.environ["HUGGINGFACE_HUB_TOKEN"]
TokenValues == {NoneVal, "", "hf_A", "hf_B"}

\* TokenManager._load_token, from the two sources
_load_token_env_first(secret, env) ==
    IF Truthy(env)
    THEN [token |-> env, token_source |-> "environment"]
    ELSE IF Truthy(secret)
         THEN [token |-> secret, token_source |-> "streamlit_secrets"]
         ELSE [token |-> NoneVal, token_source |-> NoneVal]

_load_token(secret, env) ==
    IF Truthy(secret)
    THEN [token |-> secret, token_source |-> "streamlit_secrets"]
    ELSE IF Truthy(env)
         THEN [token |-> env, token_source |-> "environment"]
         ELSE [token |-> NoneVal, token_source |-> NoneVal]

\* TokenManager.refresh_token, line 135: the value returned, from the token
\* held before and the fresh resolution
refresh_token_by_source(old_token, loaded) ==
    loaded.token # old_token \/ loaded.token_source # tm_source

refresh_token(old_token, loaded) == loaded.token # old_token

\* TokenManager.get_token_status
get_token_status ==
    [available |-> Truthy(tm_token),
     source |-> tm_source,
     length |-> IF Truthy(tm_token) THEN Len(tm_token) ELSE 0]

\* outcomes of hf_hub_download: a path, or an exception whose text carries
\* the status
DownloadOutcomes == {"ok", "401 Unauthorized", "403 Forbidden", "404 Not Found",
                     "Connection timed out"}

\* TokenManager.check_model_access, from the outcome of hf_hub_download
check_model_access(download) ==
    IF download = "ok"
    THEN [success |-> TRUE, message |-> "Acces au modele confirme",
          config_path |-> "config.yaml"]
    ELSE IF download = "401 Unauthorized"
    THEN [success |-> FALSE, message |-> "Token invalide ou expire",
          details |-> "Verifiez que votre token HF est valide et non expire"]
    ELSE IF download = "403 Forbidden"
    THEN [success |-> FALSE, message |-> "Conditions d'utilisation non acceptees",
          details |-> "Vous devez accepter les conditions d'utilisation"]
    ELSE IF download = "404 Not Found"
    THEN [success |-> FALSE, message |-> "Modele non trouve",
          details |-> "Le modele n'existe pas ou n'est pas accessible"]
    ELSE [success |-> FALSE, message |-> "Erreur d'acces: " \o download,
          details |-> "Verifiez votre connexion reseau et les permissions"]

\* an exception that leaves an operation uncaught
Raised(error_type) == [raised |-> error_type]

\* TokenManager.get_torch_device, from the outcome of `import torch` ("ok" or
\* "ImportError") and the two availability probes ("yes", "no", or "raise"
\* when the probe throws).  The ImportError handler (line 125) reads the
\* local name torch, which the failed import left unbound: the handler
\* itself raises UnboundLocalError, which no clause catches.
get_torch_device(torch_import, mps, cuda) ==
    IF torch_import = "ImportError" THEN Raised("UnboundLocalError")
    ELSE IF mps = "raise" THEN [device |-> "cpu"]
    ELSE IF mps = "yes" THEN [device |-> "mps"]
    ELSE IF cuda = "raise" THEN [device |-> "cpu"]
    ELSE IF cuda = "yes" THEN [device |-> "cuda"]
    ELSE [device |-> "cpu"]

\* ------------------------------------------------------- VADProcessor
\* one call made by an operation: the callee and its argument
Call(fn, arg) == [fn |-> fn, arg |-> arg]

\* VADProcessor._load_config: the defaults (0.3 s, 0.2 s, 0.25 s on the
\* 0.05 s grid) when the file cannot be read, else the file's values; a file
\* that leaves a key out ("partial") yields a config without that key
DefaultMinDuration == 6

DefaultMergeGap == 4

DefaultMargin == 5

DefaultConfig ==
    [min_duration_s |-> DefaultMinDuration,
     margin_s |-> DefaultMargin,
     merge_gap_s |-> DefaultMergeGap]

FileConfig == [min_duration_s |-> 1, margin_s |-> 1, merge_gap_s |-> 1]

PartialConfig == [min_duration_s |-> 1, margin_s |-> 1]

ConfigFiles == {"unreadable", "complete", "partial"}

_load_config(file) ==
    IF file = "unreadable" THEN DefaultConfig
    ELSE IF file = "complete" THEN FileConfig
    ELSE PartialConfig

\* the collaborator outcomes one initialize_pipeline call can meet:
\* dl, the download of check_model_access; load, Pipeline.from_pretrained;
\* move, pipeline.to(device)
InitPaths ==
    {[dl |-> d, load |-> "n/a", move |-> "n/a"] :
        d \in {"401 Unauthorized", "Connection timed out"}}
    \cup {[dl |-> "ok", load |-> "raise", move |-> "n/a"],
          [dl |-> "ok", load |-> "ok", move |-> "raise"],
          [dl |-> "ok", load |-> "ok", move |-> "ok"]}

\* the "success" entry of a returned record, as the outcome of the call
Outcome(r) == IF r.success THEN "success" ELSE "failure"

\* line 88: no token to use
TokenNeverMissing(tok) == FALSE

TokenMissing(tok) == ~Truthy(tok)

\* VADProcessor.initialize_pipeline(hf_token): the new pipeline handle and
\* init error, the calls made and the record returned
initialize_pipeline(hf_token, path) ==
    LET tok == IF Truthy(hf_token) THEN hf_token ELSE token
        access_status == check_model_access(path.dl)
        check == <<Call("check_model_access", tok)>>
        load == check \o <<Call("Pipeline.from_pretrained", tok)>>
        move == load \o <<Call("pipeline.to", device)>>
    IN  IF TokenMissing(tok)
        THEN [pipeline |-> pipeline,
              initialization_error |-> initialization_error,
              calls |-> <<>>,
              ret |-> [success |-> FALSE,
                       message |-> "Token HuggingFace manquant",
                       details |-> "Aucun token trouve"]]
        ELSE IF ~access_status.success
        THEN [pipeline |-> pipeline,
              initialization_error |-> initialization_error,
              calls |-> check,
              ret |-> [success |-> FALSE,
                       message |-> "Echec de la verification d'acces au modele: "
                                   \o access_status.message,
                       details |-> access_status.details,
                       access_status |-> access_status]]
        ELSE IF path.load = "raise"
        THEN [pipeline |-> pipeline,
              initialization_error |->
                  "Erreur initialisation pipeline: from_pretrained failed",
              calls |-> load,
              ret |-> [success |-> FALSE,
                       message |-> "Echec de l'initialisation de la pipeline",
                       details |-> "from_pretrained failed",
                       error_type |-> "OSError"]]
        ELSE IF path.move = "raise"
        THEN [pipeline |-> "loaded",
              initialization_error |->
                  "Erreur initialisation pipeline: to(device) failed",
              calls |-> move,
              ret |-> [success |-> FALSE,
                       message |-> "Echec de l'initialisation de la pipeline",
                       details |-> "to(device) failed",
                       error_type |-> "RuntimeError"]]
        ELSE [pipeline |-> "on_device",
              initialization_error |-> NoneVal,
              calls |-> move,
              ret |-> [success |-> TRUE,
                       message |-> "Pipeline VAD initialisee avec succes.",
                       access_status |-> access_status]]

\* VADProcessor.check_prerequisites, from the outcome of the imports ("ok" or
\* "ImportError") and of the ffmpeg probe ("ok"; "missing": CalledProcessError
\* or FileNotFoundError; "raise": any other exception)
check_prerequisites_uncaught(imports, ffmpeg) ==
    IF imports = "ImportError"
    THEN [error |-> "Import manquant"]
    ELSE IF ffmpeg = "raise"
    THEN Raised("PermissionError")
    ELSE [torch_version |-> "torch",
          torchaudio_version |-> "torchaudio",
          device |-> device,
          ffmpeg_available |-> ffmpeg = "ok",
          config_loaded |-> DictTruthy(config),
          token_available |-> Truthy(token)]

check_prerequisites(imports, ffmpeg) ==
    IF imports = "ImportError"
    THEN [error |-> "Import manquant"]
    ELSE IF ffmpeg = "raise"
    THEN [error |-> "Erreur verification"]
    ELSE [torch_version |-> "torch",
          torchaudio_version |-> "torchaudio",
          device |-> device,
          ffmpeg_available |-> ffmpeg = "ok",
          config_loaded |-> DictTruthy(config),
          token_available |-> Truthy(token)]

PrereqProbes ==
    {[imports |-> "ImportError", ffmpeg |-> "n/a"]}
    \cup {[imports |-> "ok", ffmpeg |-> f] : f \in {"ok", "missing", "raise"}}

\* VADProcessor.get_health_status: no try block, so an exception of a callee
\* would leave it
get_health_status(probe) ==
    LET prerequisites == check_prerequisites(probe.imports, probe.ffmpeg)
    IN  IF "raised" \in DOMAIN prerequisites
        THEN prerequisites
        ELSE [initialized |-> pipeline # NoneVal,
              device |-> device,
              model |-> "pyannote/voice-activity-detection",
              config |-> config,
              token_status |-> get_token_status,
              last_error |-> initialization_error,
              prerequisites |-> prerequisites]

\* round(x, 3) of a time on the 0.05 s grid, in milliseconds
Round3(t) == t * 50

\* lines 308-316: the SpeechEvent of each processed segment
SpeechEvents(processed) ==
    [i \in 1..Len(processed) |->
        [type |-> "speech",
         start |-> Round3(processed[i].start),
         end |-> Round3(processed[i].end),
         confidence |-> NoneVal,
         duration |-> Round3(processed[i].end - processed[i].start)]]

\* what one process_audio call meets after the initialization check:
\* fail_at, the first step that raises ("none": no step raises); shape, the
\* shape of the inference result; segs, its timeline (for the shape "other",
\* the items of the plain list); dur, the decoded duration; save, the outcome
\* of the write in save_results.  The last timeline holds an object without
\* an end attribute.
Timelines(duration) ==
    IF duration = 0 THEN {<<>>}
    ELSE {<<>>, <<Segment(0, 1), Segment(2, 4)>>, <<Segment(0, 2), [start |-> 3]>>}

\* lines 286-302: the segments taken from the inference result
ExtractSegmentsAnyShape(shape, segs) == segs

ExtractSegments(shape, segs) ==
    IF shape \in {"timeline", "speech_dict"} THEN segs ELSE <<>>

FailingRuns(is_video) ==
    {[fail_at |-> f, shape |-> "n/a", segs |-> <<>>, dur |-> 0, save |-> "n/a"] :
        f \in (IF is_video THEN {"extract"} ELSE {}) \cup {"hash", "read", "infer"}}

CompleteRuns(is_video) ==
    {r \in [fail_at : {"none"}, shape : {"timeline", "speech_dict", "other"},
            segs : Timelines(MaxT), dur : {MaxT}, save : {"ok", "raise"}] :
        /\ r.shape # "timeline" => (r.segs # <<>> /\ \A i \in 1..Len(r.segs) : HasBounds(r.segs[i]))
        /\ r.save = "raise" => (r.shape = "timeline" /\ r.segs = <<>>)
        /\ is_video => (r.shape = "timeline" /\ r.save = "ok")}

\* with no pipeline handle the inference call itself raises, so only the
\* steps before it can differ
Runs(is_video, handle) ==
    IF handle = NoneVal THEN FailingRuns(is_video)
    ELSE FailingRuns(is_video) \cup CompleteRuns(is_video)

\* VADProcessor.process_audio(file_path): the new object and file state, the
\* calls made and the record returned
process_audio(is_video, path, probe, run) ==
    LET needs_init == pipeline = NoneVal
        init == IF needs_init
                THEN initialize_pipeline(NoneVal, path)
                ELSE [pipeline |-> pipeline,
                      initialization_error |-> initialization_error,
                      calls |-> <<>>,
                      ret |-> [success |-> init_outcome = "success"]]
        init_calls == IF needs_init
                      THEN <<Call("initialize_pipeline", NoneVal)>> \o init.calls
                      ELSE <<>>
        \* line 252: the returned dict itself is tested, not its "success"
        gives_up == needs_init /\ ~DictTruthy(init.ret)
        extract == IF is_video
                   THEN <<Call("_extract_audio_from_video", "file_path")>>
                   ELSE <<>>
        audio_path == IF is_video THEN "scratch" ELSE "file_path"
        c_extract == init_calls \o extract
        c_hash == c_extract \o <<Call("_get_file_hash", "file_path")>>
        c_read == c_hash \o <<Call("sf.read", audio_path)>>
        c_infer == c_read \o <<Call("pipeline", audio_path)>>
        c_post == c_infer \o <<Call("_post_process_segments", "segments")>>
        c_remove == c_post \o (IF is_video THEN <<Call("os.remove", "scratch")>>
                               ELSE <<>>)
        c_save == c_remove \o <<Call("save_results", "results")>>
        scratch_after_extract == IF is_video THEN TRUE ELSE scratch_exists
        raw == ExtractSegments(run.shape, run.segs)
        processed == _post_process_segments(raw, run.dur, config)
        events == SpeechEvents(processed)
        Failure(cs, scratch, error, error_type) ==
            [pipeline |-> init.pipeline,
             initialization_error |-> init.initialization_error,
             init_outcome |-> IF needs_init THEN Outcome(init.ret) ELSE init_outcome,
             scratch_exists |-> scratch,
             report_written |-> report_written,
             vad_result |-> NoneVal,
             segments |-> <<>>,
             audio_duration |-> 0,
             processed_segments |-> <<>>,
             calls |-> cs,
             ret |-> [success |-> FALSE, error |-> error, error_type |-> error_type]]
    IN  IF gives_up
        THEN [pipeline |-> init.pipeline,
              initialization_error |-> init.initialization_error,
              init_outcome |-> IF needs_init THEN Outcome(init.ret) ELSE init_outcome,
              scratch_exists |-> scratch_exists,
              report_written |-> report_written,
              vad_result |-> NoneVal,
              segments |-> <<>>,
              audio_duration |-> 0,
              processed_segments |-> <<>>,
              calls |-> init_calls \o <<Call("check_prerequisites", NoneVal)>>,
              ret |-> [success |-> FALSE,
                       error |-> IF Truthy(init.initialization_error)
                                 THEN init.initialization_error
                                 ELSE "Pipeline non initialisee",
                       health |-> check_prerequisites(probe.imports,
                                                      probe.ffmpeg)]]
        ELSE IF is_video /\ run.fail_at = "extract"
        THEN Failure(c_extract, scratch_exists, "ffmpeg error", "Exception")
        ELSE IF run.fail_at = "hash"
        THEN Failure(c_hash, scratch_after_extract, "No such file", "FileNotFoundError")
        ELSE IF run.fail_at = "read"
        THEN Failure(c_read, scratch_after_extract, "Error opening file",
                     "LibsndfileError")
        ELSE IF init.pipeline = NoneVal
        THEN Failure(c_read, scratch_after_extract,
                     "'NoneType' object is not callable", "TypeError")
        ELSE IF run.fail_at = "infer"
        THEN Failure(c_infer, scratch_after_extract, "inference failed",
                     "RuntimeError")
        ELSE [pipeline |-> init.pipeline,
              initialization_error |-> init.initialization_error,
              init_outcome |-> IF needs_init THEN Outcome(init.ret) ELSE init_outcome,
              scratch_exists |-> IF is_video THEN FALSE ELSE scratch_exists,
              report_written |-> IF run.save = "ok" THEN TRUE ELSE report_written,
              vad_result |-> run.shape,
              segments |-> raw,
              audio_duration |-> run.dur,
              processed_segments |-> processed,
              calls |-> c_save,
              ret |-> [success |-> TRUE,
                       metadata |-> [source |-> "file_path",
                                     input_type |-> IF is_video THEN "video"
                                                    ELSE "audio",
                                     duration_s |-> Round3(run.dur),
                                     profile |-> "vad",
                                     model |-> "pyannote/voice-activity-detection",
                                     device |-> device,
                                     segments_count |-> Len(events),
                                     config |-> config],
                       events |-> events]]

\* ------------------------------------------------------------ inputs
\* RawInterval: start < end, within the audio file
RawIntervals(duration) ==
    {x \in [start : 0..duration, end : 0..duration] : x.start < x.end}

SeqsUpTo(S, n) == UNION {[1..k -> S] : k \in 0..n}

Configs ==
    [min_duration_s : 0..MaxMinDuration,
     margin_s : 0..MaxMargin,
     merge_gap_s : 0..MaxMergeGap]

\* ------------------------------------------------------ specification
InitDrawn ==
    /\ audio_duration \in 1..MaxT
    /\ segments \in SeqsUpTo(RawIntervals(audio_duration), MaxLen)
    /\ config \in Configs

\* the scenario input of the specification on the 0.05 s grid:
\* raw (0.0,0.5),(0.6,1.0),(5.0,5.4), duration 6.0, min 0.3, margin 0.1, gap 0.2
InitScenario ==
    /\ audio_duration = 120
    /\ segments = <<Segment(0, 10), Segment(12, 20), Segment(100, 108)>>
    /\ config = [min_duration_s |-> 6, margin_s |-> 2, merge_gap_s |-> 4]

\* VADProcessor.__init__ after TokenManager.__init__: the object state
Constructed(secret, env, dev) ==
    /\ st_secrets = secret
    /\ os_environ = env
    /\ tm_token = _load_token(secret, env).token
    /\ tm_source = _load_token(secret, env).token_source
    /\ token = tm_token
    /\ pipeline = NoneVal
    /\ device = dev
    /\ last_processed_hash = NoneVal
    /\ last_result = NoneVal
    /\ initialization_error = NoneVal
    /\ scratch_exists = FALSE
    /\ report_written = FALSE
    /\ op = "__init__"
    /\ calls = <<>>
    /\ ret = [none |-> TRUE]
    /\ init_outcome = NoneVal
    /\ op_arg = NoneVal
    /\ vad_result = NoneVal

Init ==
    /\ (InitDrawn \/ InitScenario)
    /\ processed_segments = <<>>
    /\ result = <<>>
    /\ result2 = <<>>
    /\ pc = "start"
    /\ Constructed(NoneVal, NoneVal, "cpu")

\* one call of _post_process_segments(segments, audio_duration)
PostProcess ==
    /\ pc = "start"
    /\ processed_segments' = FilterAndPad(segments, audio_duration, config)
    /\ result' = _post_process_segments(segments, audio_duration, config)
    /\ pc' = "done"
    /\ UNCHANGED <<segments, audio_duration, config, result2>>
    /\ UNCHANGED <<tmvars, objvars, fsvars, obsvars, envvars>>

\* a second call, on the list the first call returned
PostProcessAgain ==
    /\ pc = "done"
    /\ result2' = _post_process_segments(result, audio_duration, config)
    /\ pc' = "twice"
    /\ UNCHANGED <<segments, audio_duration, config, processed_segments, result>>
    /\ UNCHANGED <<tmvars, objvars, fsvars, obsvars, envvars>>

Next == PostProcess \/ PostProcessAgain

Spec == Init /\ [][Next]_vars

\* ------------------------------------- specification of the orchestrator
InitOrchestrator ==
    /\ \E secret \in {NoneVal, "hf_A"}, env \in {NoneVal} :
       \E mps \in {"no"}, cuda \in {"no"} :
           Constructed(secret, env, get_torch_device("ok", mps, cuda).device)
    /\ \E file \in ConfigFiles : config = _load_config(file)
    /\ segments = <<>>
    /\ audio_duration = 0
    /\ processed_segments = <<>>
    /\ result = <<>>
    /\ result2 = <<>>
    /\ pc = "idle"

\* a caller invokes initialize_pipeline(hf_token)
InitializePipeline ==
    \E hf_token \in {NoneVal, "", "hf_X"} :
    \E path \in (IF Truthy(hf_token) \/ ~TokenMissing(token) THEN InitPaths
                 ELSE {[dl |-> "n/a", load |-> "n/a", move |-> "n/a"]}) :
        LET e == initialize_pipeline(hf_token, path)
        IN  /\ pipeline' = e.pipeline
            /\ initialization_error' = e.initialization_error
            /\ op' = "initialize_pipeline"
            /\ calls' = e.calls
            /\ ret' = e.ret
            /\ init_outcome' = Outcome(e.ret)
            /\ op_arg' = hf_token
            /\ UNCHANGED <<token, device, last_processed_hash, last_result>>
            /\ UNCHANGED <<ppvars, config, tmvars, fsvars, vad_result, envvars>>

\* a caller invokes process_audio(file_path)
ProcessAudio ==
    \E is_video \in BOOLEAN :
    \E path \in (IF pipeline = NoneVal /\ ~TokenMissing(token) THEN InitPaths
                 ELSE {[dl |-> "n/a", load |-> "n/a", move |-> "n/a"]}) :
    \E probe \in (IF /\ pipeline = NoneVal
                     /\ ~DictTruthy(initialize_pipeline(NoneVal, path).ret)
                  THEN PrereqProbes
                  ELSE {[imports |-> "ok", ffmpeg |-> "ok"]}) :
    \E run \in Runs(is_video,
                    IF pipeline = NoneVal
                    THEN initialize_pipeline(NoneVal, path).pipeline
                    ELSE pipeline) :
        LET e == process_audio(is_video, path, probe, run)
        IN  /\ pipeline' = e.pipeline
            /\ initialization_error' = e.initialization_error
            /\ scratch_exists' = e.scratch_exists
            /\ report_written' = e.report_written
            /\ op' = "process_audio"
            /\ calls' = e.calls
            /\ ret' = e.ret
            /\ init_outcome' = e.init_outcome
            /\ op_arg' = IF is_video THEN "file.mp4" ELSE "file.wav"
            /\ vad_result' = e.vad_result
            /\ segments' = e.segments
            /\ audio_duration' = e.audio_duration
            /\ result' = e.processed_segments
            /\ UNCHANGED <<token, device, last_processed_hash, last_result>>
            /\ UNCHANGED <<processed_segments, result2, pc, config, tmvars, envvars>>

\* a caller invokes check_prerequisites()
CheckPrerequisites ==
    \E probe \in PrereqProbes :
        /\ op' = "check_prerequisites"
        /\ calls' = <<>>
        /\ ret' = check_prerequisites(probe.imports, probe.ffmpeg)
        /\ op_arg' = NoneVal
        /\ UNCHANGED <<init_outcome, vad_result, ppvars, config, tmvars, objvars,
                       fsvars, envvars>>

\* a caller invokes get_health_status()
GetHealthStatusClearingError ==
    \E probe \in PrereqProbes :
        /\ op' = "get_health_status"
        /\ calls' = <<Call("get_token_status", NoneVal),
                      Call("check_prerequisites", NoneVal)>>
        /\ ret' = get_health_status(probe)
        /\ op_arg' = NoneVal
        /\ initialization_error' = NoneVal
        /\ UNCHANGED <<token, pipeline, device, last_processed_hash, last_result>>
        /\ UNCHANGED <<init_outcome, vad_result, ppvars, config, tmvars,
                       fsvars, envvars>>

GetHealthStatus ==
    \E probe \in PrereqProbes :
        /\ op' = "get_health_status"
        /\ calls' = <<Call("get_token_status", NoneVal),
                      Call("check_prerequisites", NoneVal)>>
        /\ ret' = get_health_status(probe)
        /\ op_arg' = NoneVal
        /\ UNCHANGED <<init_outcome, vad_result, ppvars, config, tmvars, objvars,
                       fsvars, envvars>>

NextOrchestrator ==
    \/ InitializePipeline
    \/ ProcessAudio
    \/ CheckPrerequisites
    \/ GetHealthStatus

SpecOrchestrator == InitOrchestrator /\ [][NextOrchestrator]_vars

\* ------------------------------------- specification of the TokenManager
\* the two token sources hold any value; the TokenManager has been constructed
InitTokenManager ==
    /\ \E secret \in TokenValues, env \in TokenValues :
           Constructed(secret, env, get_torch_device("ok", "no", "no").device)
    /\ config = _load_config("unreadable")
    /\ segments = <<>>
    /\ audio_duration = 0
    /\ processed_segments = <<>>
    /\ result = <<>>
    /\ result2 = <<>>
    /\ pc = "idle"

\* the deployment changes the HF_TOKEN entry of the Streamlit secrets
EditSecrets ==
    \E v \in TokenValues :
        /\ v # st_secrets
        /\ st_secrets' = v
        /\ op' = "edit_secrets"
        /\ op_arg' = v
        /\ calls' = <<>>
        /\ ret' = [none |-> TRUE]
        /\ UNCHANGED <<os_environ, init_outcome, vad_result, ppvars, config,
                       tmvars, objvars, fsvars>>

\* the deployment changes the HUGGINGFACE_HUB_TOKEN environment variable
SetEnviron ==
    \E v \in TokenValues :
        /\ v # os_environ
        /\ os_environ' = v
        /\ op' = "set_environ"
        /\ op_arg' = v
        /\ calls' = <<>>
        /\ ret' = [none |-> TRUE]
        /\ UNCHANGED <<st_secrets, init_outcome, vad_result, ppvars, config,
                       tmvars, objvars, fsvars>>

\* a caller invokes TokenManager.refresh_token()
RefreshToken ==
    LET old_token == tm_token
        loaded == _load_token(st_secrets, os_environ)
    IN  /\ tm_token' = loaded.token
        /\ tm_source' = loaded.token_source
        /\ op' = "refresh_token"
        /\ op_arg' = NoneVal
        /\ calls' = <<Call("_load_token", NoneVal)>>
        /\ ret' = [value |-> refresh_token(old_token, loaded)]
        /\ UNCHANGED <<init_outcome, vad_result, ppvars, config, objvars,
                       fsvars, envvars>>

\* a caller invokes TokenManager.get_token_status()
GetTokenStatus ==
    /\ op' = "get_token_status"
    /\ op_arg' = NoneVal
    /\ calls' = <<>>
    /\ ret' = get_token_status
    /\ UNCHANGED <<init_outcome, vad_result, ppvars, config, tmvars, objvars,
                   fsvars, envvars>>

\* a caller invokes TokenManager.check_model_access(model_id, token)
CheckModelAccess ==
    \E download \in DownloadOutcomes :
        /\ op' = "check_model_access"
        /\ op_arg' = download
        /\ calls' = <<Call("hf_hub_download", tm_token)>>
        /\ ret' = check_model_access(download)
        /\ UNCHANGED <<init_outcome, vad_result, ppvars, config, tmvars,
                       objvars, fsvars, envvars>>

\* what one get_torch_device call meets: the import and the two probes
DeviceProbes ==
    {[torch_import |-> "ImportError", mps |-> "n/a", cuda |-> "n/a"]}
    \cup [torch_import : {"ok"}, mps : {"yes", "no", "raise"},
          cuda : {"yes", "no", "raise"}]

\* a caller invokes TokenManager.get_torch_device()
GetTorchDevice ==
    \E probes \in DeviceProbes :
        /\ op' = "get_torch_device"
        /\ op_arg' = probes
        /\ calls' = <<>>
        /\ ret' = get_torch_device(probes.torch_import, probes.mps, probes.cuda)
        /\ UNCHANGED <<init_outcome, vad_result, ppvars, config, tmvars,
                       objvars, fsvars, envvars>>

NextTokenManager ==
    \/ EditSecrets
    \/ SetEnviron
    \/ RefreshToken
    \/ GetTokenStatus
    \/ CheckModelAccess
    \/ GetTorchDevice

SpecTokenManager == InitTokenManager /\ [][NextTokenManager]_vars

\* ------------------ specification of the orchestrator with its resolver
\* the token sources change and the resolver is refreshed while the
\* orchestrator is initialized and asked for its health
NextResolver ==
    \/ EditSecrets
    \/ SetEnviron
    \/ RefreshToken
    \/ InitializePipeline
    \/ GetHealthStatus

SpecResolver == InitTokenManager /\ [][NextResolver]_vars

\* ------------------------------------------------- claims C1 .. C7
\* the raw list is in start-ascending order
Ascending(segs) ==
    \A i \in 1..(Len(segs) - 1) : segs[i].start <= segs[i + 1].start

RawLength(segment) == segment.end - segment.start

Gap(first, second) == second.start - first.end

\* C1: the list returned by _post_process_segments is sorted ascending by
\* start and its intervals are pairwise non-overlapping, for every raw list.
C1_SortedNonOverlapping ==
    pc # "start" =>
        \A i \in 1..Len(result) : \A j \in 1..Len(result) :
            i < j => /\ result[i].start <= result[j].start
                     /\ result[i].end <= result[j].start

\* C2: every interval after margin expansion and every returned interval
\* has start >= 0 and end <= audio_duration.
C2_WithinFileBounds ==
    pc # "start" =>
        /\ \A i \in 1..Len(processed_segments) :
               /\ processed_segments[i].start >= 0
               /\ processed_segments[i].end <= audio_duration
        /\ \A i \in 1..Len(result) :
               /\ result[i].start >= 0
               /\ result[i].end <= audio_duration

\* C2 witness: a kept interval whose padded bounds leave the file on both
\* sides was clamped and returned.
C2_Witness ==
    /\ pc = "done"
    /\ config.margin_s > 0
    /\ \E i \in 1..Len(segments) :
           /\ RawLength(segments[i]) >= config.min_duration_s
           /\ segments[i].start - config.margin_s < 0
           /\ segments[i].end + config.margin_s > audio_duration
    /\ result = <<Segment(0, audio_duration)>>

\* C3: two surviving intervals whose gap is exactly merge_gap_s come out as
\* one interval, two whose gap is larger come out as two, for every
\* merge_gap_s >= 0.
C3_MergeBoundary ==
    (pc # "start" /\ Len(processed_segments) = 2) =>
        LET gap == Gap(processed_segments[1], processed_segments[2])
        IN  /\ gap = config.merge_gap_s => Len(result) = 1
            /\ gap > config.merge_gap_s => Len(result) = 2

\* C4: with merge_gap_s = 0, two surviving intervals that are adjacent or
\* overlapping (gap <= 0) come out as one interval, and two with a positive
\* gap come out as two.
C4_ZeroGapStillMerges ==
    (pc # "start" /\ config.merge_gap_s = 0 /\ Len(processed_segments) = 2) =>
        LET gap == Gap(processed_segments[1], processed_segments[2])
        IN  /\ gap <= 0 => result = <<Segment(processed_segments[1].start,
                                              processed_segments[2].end)>>
            /\ gap > 0 => result = processed_segments

\* C5 as stated: applying _post_process_segments to its own output returns
\* that output, for every raw list and configuration.
C5_Idempotent == pc = "twice" => result2 = result

\* C5 amended: with margin_s = 0 and a start-ascending raw list of
\* intervals inside the file, the second application returns the first
\* application's output.
C5_IdempotentWithoutMargin ==
    (pc = "twice" /\ config.margin_s = 0 /\ Ascending(segments)) =>
        result2 = result

\* C5 witness: margin_s = 0, ascending input, the first application merged
\* two intervals into one, and the second application changed nothing.
C5_Witness ==
    /\ pc = "twice"
    /\ config.margin_s = 0
    /\ Ascending(segments)
    /\ Len(processed_segments) = 2
    /\ Len(result) = 1
    /\ result2 = result

\* the three-step reference pipeline of C6: filter on raw length, pad and
\* clamp, then walk pairwise and always emit the accumulated interval
RefFilter(segs, cfg) ==
    SelectSeq(segs, LAMBDA x : ~(x.end - x.start < cfg.min_duration_s))

RefPad(segs, duration, cfg) ==
    [i \in 1..Len(segs) |->
        [start |-> IF segs[i].start - cfg.margin_s < 0 THEN 0
                   ELSE segs[i].start - cfg.margin_s,
         end |-> IF segs[i].end + cfg.margin_s > duration THEN duration
                 ELSE segs[i].end + cfg.margin_s]]

RECURSIVE RefWalk(_, _, _, _)
RefWalk(acc, segs, i, cfg) ==
    IF i > Len(segs) THEN <<acc>>
    ELSE IF segs[i].start - acc.end <= cfg.merge_gap_s
         THEN RefWalk([start |-> acc.start, end |-> segs[i].end], segs, i + 1, cfg)
         ELSE <<acc>> \o RefWalk(segs[i], segs, i + 1, cfg)

Reference(segs, duration, cfg) ==
    LET padded == RefPad(RefFilter(segs, cfg), duration, cfg)
    IN  IF padded = <<>> THEN <<>> ELSE RefWalk(padded[1], padded, 2, cfg)

\* C6: for start-ascending raw input the returned list equals the
\* three-step reference pipeline (filter, pad, pairwise walk).
C6_EqualsReference ==
    (pc # "start" /\ Ascending(segments)) =>
        result = Reference(segments, audio_duration, config)

\* the scenario of C6: the call on the scenario input returns
\* [(0, 1.1), (4.9, 5.5)], i.e. (0, 22) and (98, 110) on the 0.05 s grid
ScenarioResult ==
    (pc # "start" /\ audio_duration = 120) =>
        result = <<Segment(0, 22), Segment(98, 110)>>

\* C7: an interval whose raw length equals min_duration_s is kept, one
\* whose raw length is strictly smaller is dropped; the test reads the raw
\* length, before the margins are applied.
C7_DurationFilterBoundary ==
    pc # "start" =>
        LET kept == {i \in 1..Len(segments) :
                        RawLength(segments[i]) >= config.min_duration_s}
        IN  /\ Len(processed_segments) = Cardinality(kept)
            /\ (result = <<>>) <=> (kept = {})
            /\ Len(segments) = 1 =>
                   /\ RawLength(segments[1]) = config.min_duration_s
                          => Len(result) = 1
                   /\ RawLength(segments[1]) < config.min_duration_s
                          => result = <<>>

\* C7 witness: one interval of length exactly min_duration_s was kept and a
\* shorter one was dropped in the same call.
C7_Witness ==
    /\ pc = "done"
    /\ config.min_duration_s > 0
    /\ Len(segments) = 2
    /\ RawLength(segments[1]) = config.min_duration_s
    /\ RawLength(segments[2]) < config.min_duration_s
    /\ Len(processed_segments) = 1
    /\ Len(result) = 1

\* ------------------------------------------------ claims C8 .. C10
\* the callee names of a call list
Callees(cs) == {cs[i].fn : i \in 1..Len(cs)}

\* how often a callee occurs in a call list
CallCount(cs, fn) == Cardinality({i \in 1..Len(cs) : cs[i].fn = fn})

\* Initialized: the pipeline handle is loaded on the device, no error recorded
Initialized == pipeline = "on_device" /\ initialization_error = NoneVal

\* Failed: the latest initialization attempt returned success = false and
\* there is no pipeline handle
Failed == init_outcome = "failure" /\ pipeline = NoneVal

\* C8: called while Initialized, initialize_pipeline returns success and is a
\* no-op: no model-access check, no model load, and the pipeline handle, the
\* device and the recorded init error are unchanged.
C8_InitializeIsIdempotent ==
    [][(Initialized /\ op' = "initialize_pipeline") =>
          /\ ret'.success
          /\ calls' = <<>>
          /\ pipeline' = pipeline
          /\ device' = device
          /\ initialization_error' = initialization_error]_vars

\* C9: once an initialization attempt has failed, a process_audio,
\* get_health_status or check_prerequisites call makes no further
\* initialization attempt (no access check, no load) and leaves the
\* initialization state as it is.
C9_FailedIsSticky ==
    [][(Failed /\ op' \in {"process_audio", "get_health_status",
                           "check_prerequisites"}) =>
          /\ Callees(calls') \cap {"initialize_pipeline", "check_model_access",
                                   "Pipeline.from_pretrained"} = {}
          /\ pipeline' = pipeline
          /\ initialization_error' = initialization_error
          /\ init_outcome' = init_outcome]_vars

\* C10: a process_audio call on an orchestrator that is not initialized
\* attempts initialize_pipeline exactly once, and when that attempt returns
\* success = false it returns a failure record carrying a health snapshot,
\* without hashing or decoding the file and without running inference.
C10_FailedInitReturnsHealth ==
    (op = "process_audio" /\ "initialize_pipeline" \in Callees(calls)) =>
        /\ CallCount(calls, "initialize_pipeline") = 1
        /\ init_outcome = "failure" =>
               /\ ret.success = FALSE
               /\ "health" \in DOMAIN ret
               /\ Callees(calls) \cap {"_get_file_hash", "sf.read", "pipeline"} = {}

\* ------------------------------------------------ claims C11 .. C20
\* C11: for a video input, whenever a process_audio call has extracted the
\* scratch WAV file (the step after the extraction was reached), that file no
\* longer exists when the call returns, whether the later steps succeeded or
\* raised.
C11_ScratchRemovedOnAllPaths ==
    (/\ op = "process_audio"
     /\ "_extract_audio_from_video" \in Callees(calls)
     /\ "_get_file_hash" \in Callees(calls)) => ~scratch_exists

\* C12: initialize_pipeline called without a token while the resolver holds
\* none returns success = false with the missing-token message and makes no
\* call: neither the model-access probe nor the model load.
C12_MissingCredential ==
    (op = "initialize_pipeline" /\ op_arg = NoneVal /\ ~get_token_status.available) =>
        /\ ret.success = FALSE
        /\ ret.message = "Token HuggingFace manquant"
        /\ calls = <<>>

\* C12 witness: such a call has returned the missing-token failure.
C12_Witness ==
    /\ op = "initialize_pipeline"
    /\ op_arg = NoneVal
    /\ tm_token = NoneVal
    /\ ret.success = FALSE
    /\ ret.message = "Token HuggingFace manquant"
    /\ calls = <<>>

\* C13: after initialize_pipeline has returned success = false, for any
\* cause, the recorded init error (last_error of get_health_status) is not
\* None.
C13_FailureRecordsError ==
    (op = "initialize_pipeline" /\ ~ret.success) =>
        initialization_error # NoneVal

\* C14: an exception during the model load, the move to the device included,
\* leaves an uninitialized orchestrator without a pipeline handle
\* (get_health_status reports initialized = false) and returns success =
\* false; and no process_audio call runs inference on a handle that was
\* loaded but not moved to the device.
C14_LoadExceptionLeavesFailed ==
    [][/\ (/\ pipeline = NoneVal
           /\ op' = "initialize_pipeline"
           /\ "error_type" \in DOMAIN ret') =>
               (~ret'.success /\ pipeline' = NoneVal)
       /\ (pipeline = "loaded" /\ op' = "process_audio") =>
               "pipeline" \notin Callees(calls')]_vars

\* C15: whatever the collaborators do (return or raise), initialize_pipeline
\* and process_audio return a record with a boolean success entry, and
\* get_health_status returns its report with the initialized, last_error and
\* prerequisites entries; no exception leaves any of them.
C15_NoFaultEscapes ==
    /\ op \in {"initialize_pipeline", "process_audio"} =>
           /\ "raised" \notin DOMAIN ret
           /\ "success" \in DOMAIN ret
           /\ ret.success \in BOOLEAN
    /\ op = "get_health_status" =>
           /\ "raised" \notin DOMAIN ret
           /\ {"initialized", "last_error", "prerequisites"} \subseteq DOMAIN ret
           /\ "raised" \notin DOMAIN ret.prerequisites

\* C15 witness: inference raised on an initialized orchestrator and
\* process_audio returned a failure record naming the exception.
C15_Witness ==
    /\ op = "process_audio"
    /\ pipeline = "on_device"
    /\ "pipeline" \in Callees(calls)
    /\ ret.success = FALSE
    /\ ret.error_type = "RuntimeError"

\* C16: when the inference result is neither timeline-bearing nor a dict
\* with a "speech" key, process_audio returns success = true with events = []
\* and segments_count = 0.
C16_UnexpectedShapeGivesNoEvents ==
    (op = "process_audio" /\ vad_result = "other") =>
        /\ ret.success
        /\ ret.events = <<>>
        /\ ret.metadata.segments_count = 0

\* C16 witness: a process_audio call on an initialized orchestrator met such
\* a result and returned success with no events.
C16_Witness ==
    /\ op = "process_audio"
    /\ vad_result = "other"
    /\ pipeline = "on_device"
    /\ ret.success
    /\ ret.events = <<>>

\* a raw list with an object that lacks start or end
Malformed(segs) ==
    \E i \in 1..Len(segs) : ~({"start", "end"} \subseteq DOMAIN segs[i])

\* a configuration that lacks a key post-processing reads
MissingKey(cfg) ==
    ~({"min_duration_s", "margin_s", "merge_gap_s"} \subseteq DOMAIN cfg)

C17_WitnessMissingKey ==
    /\ op = "process_audio"
    /\ MissingKey(config)
    /\ ~Malformed(segments)
    /\ \E i \in 1..Len(segments) :
           RawLength(segments[i]) >= config.min_duration_s
    /\ ret.success
    /\ ret.events = <<>>

\* every interval of a well-formed raw list is shorter than min_duration_s
AllShort(segs, cfg) ==
    /\ ~Malformed(segs)
    /\ ~MissingKey(cfg)
    /\ \A i \in 1..Len(segs) : RawLength(segs[i]) < cfg.min_duration_s

\* C18: when no raw interval has length >= min_duration_s (the empty raw
\* list included), _post_process_segments returns the empty list, for every
\* merge_gap_s and margin_s, and process_audio returns success = true with no
\* events.
C18_AllFilteredGivesEmpty ==
    (op = "process_audio" /\ vad_result # NoneVal /\ AllShort(segments, config)) =>
        /\ result = <<>>
        /\ ret.success
        /\ ret.events = <<>>
        /\ \A g \in 0..MaxMergeGap, m \in 0..MaxMargin :
               _post_process_segments(segments, audio_duration,
                   [config EXCEPT !.merge_gap_s = g, !.margin_s = m]) = <<>>

\* C18 witness: a non-empty timeline was filtered out completely and
\* process_audio returned success with no events.
C18_Witness ==
    /\ op = "process_audio"
    /\ vad_result = "timeline"
    /\ segments # <<>>
    /\ AllShort(segments, config)
    /\ ret.success
    /\ ret.events = <<>>

\* C19: when the model-access check fails, the failure record of
\* initialize_pipeline carries the message and the details of the record
\* check_model_access returned, unchanged.
C19_AccessFailureVerbatim ==
    (op = "initialize_pipeline" /\ ~ret.success /\ "access_status" \in DOMAIN ret) =>
        /\ ret.message = ret.access_status.message
        /\ ret.details = ret.access_status.details

\* C20: after the resolver has run (construction or refresh_token), the held
\* token is the secret-store value with source streamlit_secrets when that
\* value is non-empty, else the environment value with source environment
\* when that one is non-empty, else token and source are None and the status
\* reports available = false.
C20_ResolutionPriority ==
    op \in {"__init__", "refresh_token"} =>
        /\ IF st_secrets \notin {NoneVal, ""}
           THEN tm_token = st_secrets /\ tm_source = "streamlit_secrets"
           ELSE IF os_environ \notin {NoneVal, ""}
           THEN tm_token = os_environ /\ tm_source = "environment"
           ELSE tm_token = NoneVal /\ tm_source = NoneVal
        /\ get_token_status.available =
               (st_secrets \notin {NoneVal, ""} \/ os_environ \notin {NoneVal, ""})
        /\ get_token_status.source = tm_source

\* C20 witness: refresh_token met an empty secret-store value and a non-empty
\* environment value, and resolved to the environment value.
C20_Witness ==
    /\ op = "refresh_token"
    /\ st_secrets = ""
    /\ os_environ = "hf_B"
    /\ tm_token = "hf_B"
    /\ tm_source = "environment"

\* ------------------------------------------------ claims C21 .. C26
\* the token and source a fresh resolution yields from the two sources
FreshToken ==
    IF st_secrets \notin {NoneVal, ""} THEN st_secrets
    ELSE IF os_environ \notin {NoneVal, ""} THEN os_environ
    ELSE NoneVal

FreshSource ==
    IF st_secrets \notin {NoneVal, ""} THEN "streamlit_secrets"
    ELSE IF os_environ \notin {NoneVal, ""} THEN "environment"
    ELSE NoneVal

\* C21: refresh_token returns true exactly when the newly resolved token
\* differs from the one held before (so a change of source alone returns
\* false), and afterwards the held token and source are those of a fresh
\* resolution of the two sources.
C21_RefreshReportsTokenChange ==
    [][op' = "refresh_token" =>
          /\ ret'.value = (tm_token' # tm_token)
          /\ (tm_token' = tm_token /\ tm_source' # tm_source) => ret'.value = FALSE
          /\ tm_token' = FreshToken'
          /\ tm_source' = FreshSource']_vars

\* C21 witness: refresh_token found another token in the environment, took
\* it and returned true.
C21_Witness ==
    /\ op = "refresh_token"
    /\ ret.value = TRUE
    /\ st_secrets \in {NoneVal, ""}
    /\ tm_token = os_environ
    /\ tm_source = "environment"

\* C22: a get_health_status call, and a check_prerequisites call, leaves
\* the pipeline handle, the device, the configuration, the cached token, the
\* recorded init error and the last-result cache unchanged, in every state.
C22_HealthIsReadOnly ==
    [][op' \in {"get_health_status", "check_prerequisites"} =>
          /\ pipeline' = pipeline
          /\ device' = device
          /\ config' = config
          /\ token' = token
          /\ initialization_error' = initialization_error
          /\ last_result' = last_result
          /\ last_processed_hash' = last_processed_hash]_vars

\* C22 witness: get_health_status has reported on an orchestrator whose
\* initialization raised, and the recorded error is still there.
C22_Witness ==
    /\ op = "get_health_status"
    /\ init_outcome = "failure"
    /\ initialization_error # NoneVal
    /\ ret.last_error = initialization_error
    /\ ret.initialized = FALSE

\* C23: get_torch_device never raises: it returns mps when the mps probe
\* reports available, else cuda when the cuda probe reports available, else
\* cpu, and cpu for every probe failure, a failed import of torch included.
C23_DeviceSelectionNeverRaises ==
    op = "get_torch_device" =>
        /\ "raised" \notin DOMAIN ret
        /\ ret.device =
               IF op_arg.torch_import = "ok" /\ op_arg.mps = "yes" THEN "mps"
               ELSE IF /\ op_arg.torch_import = "ok"
                       /\ op_arg.mps = "no"
                       /\ op_arg.cuda = "yes" THEN "cuda"
               ELSE "cpu"

\* C24: every interval that survived the filter and was margin-expanded is
\* contained in some interval of the list _post_process_segments returns; an
\* interval nested inside the accumulated one does not pull its end back.
C24_MergeKeepsCoverage ==
    pc # "start" =>
        \A i \in 1..Len(processed_segments) :
            \E j \in 1..Len(result) :
                /\ result[j].start <= processed_segments[i].start
                /\ processed_segments[i].end <= result[j].end

\* the report get_health_status would return in the current state
HealthNow == get_health_status([imports |-> "ok", ffmpeg |-> "ok"])

\* C25: after any sequence of initialize_pipeline and process_audio calls,
\* when the most recent initialize_pipeline call returned success = true,
\* get_health_status reports initialized = true and last_error = None; and
\* whenever last_error is not None it reports initialized = false.
C25_HealthMatchesInitState ==
    /\ init_outcome = "success" =>
           (HealthNow.initialized /\ HealthNow.last_error = NoneVal)
    /\ HealthNow.last_error # NoneVal => ~HealthNow.initialized

\* the first half of C25 alone
C25_SuccessClearsError ==
    init_outcome = "success" =>
        (HealthNow.initialized /\ HealthNow.last_error = NoneVal)

\* C26: after any sequence of refresh_token, initialize_pipeline and
\* get_health_status calls, an initialize_pipeline call without an explicit
\* token uses the resolver's current token (and reports a missing token only
\* when the resolver holds none), and get_health_status reports the same
\* availability in token_status.available and prerequisites.token_available.
C26_ResolverAgreement ==
    /\ (op = "initialize_pipeline" /\ ~Truthy(op_arg)) =>
           IF calls = <<>> THEN ~Truthy(tm_token) ELSE calls[1].arg = tm_token
    /\ (op = "get_health_status" /\ "token_available" \in DOMAIN ret.prerequisites) =>
           ret.token_status.available = ret.prerequisites.token_available

====
